---------------------------- MODULE Spec2Model ----------------------------
(***************************************************************************)
(* A model of pgactivity/data.py: the version resolver                     *)
(* (pg_get_num_version, pg_get_num_dev_version), the connection life cycle *)
(* (Data.pg_connect, the module-level pg_connect wrapper,                  *)
(* Data.try_reconnect), the version-bracketed query selection and the rate *)
(* derivation of Data.pg_get_db_info.                                      *)
(*                                                                         *)
(* A version string is a sequence of tokens: a product name, " ", ".",     *)
(* the digit characters "0".."9", the words "devel", "beta", "rc" and "("  *)
(* for any other text.  The two regular expressions are matched on that    *)
(* sequence, and the numeric code is built by string concatenation and     *)
(* int(), as the code builds it.                                           *)
(***************************************************************************)
EXTENDS Integers, Sequences, FiniteSets, TLC

VARIABLES
    parts, text, res,          \* resolver: the input's components, the input string, the result
    parts_b, text_b, res_b,    \* resolver: a second input and its result
    session_version, op, duration_mode, query, duration_column, \* query selection
    prev_db_infos, row, db_info, \* pg_get_db_info: previous snapshot, fetched row, result
    args,                      \* the wrapper's arguments (options, dsn, service, ...)
    server_version,            \* what the server answers to SELECT version(), as components
    pc,                        \* where the run of the pg_connect wrapper stands
    nb_try, password, data,    \* the wrapper's locals
    prompts,                   \* calls of getpass.getpass so far
    history,                   \* how each call of Data.pg_connect ended
    attempts,                  \* psycopg3.connect calls of the current Data.pg_connect call
    pg_conn, ret, fetched,     \* locals of Data.pg_connect
    raised,                    \* the exception that ended the wrapper
    next_handle, upgrades, reconnects,
    rc                         \* the last call of try_reconnect

verVars == <<parts, text, res, parts_b, text_b, res_b>>
qryVars == <<session_version, op, duration_mode, query, duration_column>>
dbVars == <<prev_db_infos, row, db_info>>
connVars == <<args, server_version, pc, nb_try, password, data, prompts,
              history, attempts, pg_conn, ret, fetched, raised, next_handle,
              upgrades, reconnects, rc>>
vars == <<verVars, qryVars, dbVars, connVars>>

None == "None"

-----------------------------------------------------------------------------
(* Bounds of the model. *)

\* Longest minor or patch numeral of an input string.
MaxNumLen == 2
\* Session version codes lie at most this far from a bracket's bound.
MaxOffset == 1
\* Largest duration_mode passed to an operation (1..3 are the defined ones).
MaxDurationMode == 4
\* Largest timestamp, transaction count, total size and max_length of a snapshot.
MaxTime == 3
MaxXact == 3
MaxSize == 2
MaxLength == 1
\* Largest min_duration passed to the wrapper.
MaxMinDuration == 1
\* Changes of the server's version, and calls of try_reconnect, in one run.
MaxUpgrades == 1
MaxReconnects == 1

-----------------------------------------------------------------------------
(* Version strings. *)

DigitChars == {"0", "1", "2", "3", "4", "5", "6", "7", "8", "9"}

DigitVal(c) ==
    CASE c = "0" -> 0 [] c = "1" -> 1 [] c = "2" -> 2 [] c = "3" -> 3
      [] c = "4" -> 4 [] c = "5" -> 5 [] c = "6" -> 6 [] c = "7" -> 7
      [] c = "8" -> 8 [] c = "9" -> 9

\* int() of a string of ASCII digits.
RECURSIVE int(_)
int(s) ==
    IF s = <<>> THEN 0
    ELSE int(SubSeq(s, 1, Len(s) - 1)) * 10 + DigitVal(s[Len(s)])

\* The longest run of digits of t that starts at position i: what [0-9]+
\* consumes there (empty when t[i] is no digit).
RECURSIVE DigitRun(_, _)
DigitRun(t, i) ==
    IF i <= Len(t) /\ t[i] \in DigitChars
    THEN <<t[i]>> \o DigitRun(t, i + 1)
    ELSE <<>>

Products == {"PostgreSQL", "EnterpriseDB"}

NoMatch == [matched |-> FALSE]

\* A group that took no part in the match (group(n) is None): [0-9]+ never
\* matches the empty string, so the empty sequence stands for it.
NoGroup == <<>>

\* re.match(r"^(PostgreSQL|EnterpriseDB) ([0-9]+)\.([0-9]+)(?:\.([0-9]+))?", t)
StableMatch(t) ==
    IF ~(Len(t) >= 3 /\ t[1] \in Products /\ t[2] = " ") THEN NoMatch
    ELSE
      LET g2 == DigitRun(t, 3)
          p  == 3 + Len(g2)
      IN  IF g2 = <<>> \/ p > Len(t) \/ t[p] # "." THEN NoMatch
          ELSE
            LET g3 == DigitRun(t, p + 1)
                q  == p + 1 + Len(g3)
            IN  IF g3 = <<>> THEN NoMatch
                ELSE
                  LET g4 == IF q <= Len(t) /\ t[q] = "." THEN DigitRun(t, q + 1)
                            ELSE <<>>
                      e  == IF g4 = <<>> THEN q - 1 ELSE q + Len(g4)
                  IN  [matched |-> TRUE, g0 |-> SubSeq(t, 1, e), g2 |-> g2,
                       g3 |-> g3, g4 |-> g4]

\* (devel|beta[0-9]+|rc[0-9]+) at position i: the position after it, 0 if none.
SuffixEnd(t, i) ==
    IF i > Len(t) THEN 0
    ELSE IF t[i] = "devel" THEN i + 1
    ELSE IF t[i] \in {"beta", "rc"} /\ DigitRun(t, i + 1) # <<>>
         THEN i + 1 + Len(DigitRun(t, i + 1))
    ELSE 0

\* re.match(r"^(PostgreSQL|EnterpriseDB) ([0-9]+)(?:\.([0-9]+))?(devel|beta[0-9]+|rc[0-9]+)", t)
DevMatch(t) ==
    IF ~(Len(t) >= 3 /\ t[1] \in Products /\ t[2] = " ") THEN NoMatch
    ELSE
      LET g2 == DigitRun(t, 3)
          p  == 3 + Len(g2)
      IN  IF g2 = <<>> THEN NoMatch
          ELSE
            LET g3 == IF p <= Len(t) /\ t[p] = "." THEN DigitRun(t, p + 1)
                      ELSE <<>>
                q  == IF g3 = <<>> THEN p ELSE p + 1 + Len(g3)
                e  == SuffixEnd(t, q)
            IN  IF e = 0 THEN NoMatch
                ELSE [matched |-> TRUE, g0 |-> SubSeq(t, 1, e - 1), g2 |-> g2,
                      g3 |-> g3, g4 |-> NoGroup]

\* Padded without its zero: rmatch += group.
PaddedNever(g) == g

\* if int(group) < 10: rmatch += "0"; rmatch += group
Padded(g) == IF int(g) < 10 THEN <<"0">> \o g ELSE g

\* raise Exception(f"Undefined PostgreSQL version: {text_version}")
VersionError == [called |-> TRUE, ok |-> FALSE, pg_version |-> <<>>,
                 pg_num_version |-> 0]

\* pg_get_num_dev_version with "0" for a missing minor, instead of "00".
DevVersionShortMinor(text_version) ==
    LET m == DevMatch(text_version)
    IN  IF ~m.matched THEN VersionError
        ELSE
          LET rmatch == m.g2
                        \o (IF m.g3 # NoGroup THEN Padded(m.g3) ELSE <<"0">>)
                        \o <<"0", "0">>
          IN  [called |-> TRUE, ok |-> TRUE, pg_version |-> m.g0,
               pg_num_version |-> int(rmatch)]

pg_get_num_dev_version(text_version) ==
    LET m == DevMatch(text_version)
    IN  IF ~m.matched THEN VersionError
        ELSE
          LET rmatch == m.g2
                        \o (IF m.g3 # NoGroup THEN Padded(m.g3) ELSE <<"0", "0">>)
                        \o <<"0", "0">>
          IN  [called |-> TRUE, ok |-> TRUE, pg_version |-> m.g0,
               pg_num_version |-> int(rmatch)]

pg_get_num_version(text_version) ==
    LET m == StableMatch(text_version)
    IN  IF m.matched
        THEN
          LET rmatch == m.g2 \o Padded(m.g3)
                        \o (IF m.g4 # NoGroup THEN Padded(m.g4) ELSE <<"0", "0">>)
          IN  [called |-> TRUE, ok |-> TRUE, pg_version |-> m.g0,
               pg_num_version |-> int(rmatch)]
        ELSE pg_get_num_dev_version(text_version)

-----------------------------------------------------------------------------
(* The resolver's inputs: strings put together from a product, a major, an  *)
(* optional minor, an optional patch (only after a minor) and what follows. *)

NumChars == {"0", "1", "9"}

\* The numerals of 1..n characters, leading zeros included.
Numerals(n) == UNION {[1..k -> NumChars] : k \in 1..n}

\* Majors are 9, 10 and 13: with them the longest code of the inputs below
\* stays under 2^31, the integers TLC computes with.
Majors == {<<"9">>, <<"1", "0">>, <<"1", "3">>}

PreSuffixes == {<<"devel">>, <<"beta", "2">>, <<"rc", "1">>}

Suffixes == PreSuffixes \cup {<<>>, <<"beta">>, <<" ", "(">>}

Absent == <<>>

PartsOf(products, minors, patches, suffixes) ==
    {[product |-> pr, major |-> ma, minor |-> mi, patch |-> pa, suffix |-> su] :
        pr \in products, ma \in Majors, mi \in minors \cup {Absent},
        pa \in patches \cup {Absent}, su \in suffixes}

\* A patch follows a minor only.
WellFormed(c) == c.minor = Absent => c.patch = Absent

VersionParts ==
    {c \in PartsOf(Products \cup {"MariaDB"}, Numerals(MaxNumLen),
                   Numerals(MaxNumLen), Suffixes) : WellFormed(c)}

OrderParts ==
    {c \in PartsOf({"PostgreSQL"}, Numerals(MaxNumLen), Numerals(MaxNumLen),
                   {<<>>, <<"beta", "2">>}) : WellFormed(c)}

RefParts ==
    {c \in PartsOf({"EnterpriseDB"}, {<<"1">>, <<"1", "0">>, <<"9", "9">>},
                   {<<"1">>, <<"1", "9">>},
                   {<<>>, <<"beta", "2">>}) :
        WellFormed(c) /\ (c.minor = Absent <=> c.suffix # <<>>)}

Render(c) ==
    <<c.product, " ">> \o c.major
        \o (IF c.minor # Absent THEN <<".">> \o c.minor ELSE <<>>)
        \o (IF c.patch # Absent THEN <<".">> \o c.patch ELSE <<>>)
        \o c.suffix

NotCalled == [called |-> FALSE, ok |-> FALSE, pg_version |-> <<>>,
              pg_num_version |-> 0]

NoParts == [product |-> "", major |-> <<>>, minor |-> <<>>, patch |-> <<>>,
            suffix |-> <<>>]

VerIdle ==
    /\ parts = NoParts /\ text = <<>> /\ res = NotCalled
    /\ parts_b = NoParts /\ text_b = <<>> /\ res_b = NotCalled

QryIdle ==
    /\ session_version = 0 /\ op = None /\ duration_mode = 0
    /\ query = None /\ duration_column = None

NoSnapshot == [some |-> FALSE, timestamp |-> 0, no_xact |-> 0, total_size |-> 0]

NoRow == [timestamp |-> 0, no_xact |-> 0, total_size |-> 0, max_length |-> 0]

NoDbInfo == [some |-> FALSE]

DbIdle == prev_db_infos = NoSnapshot /\ row = NoRow /\ db_info = NoDbInfo

NoArgs == [host |-> None, rds_mode |-> FALSE, service |-> None, dsn |-> "",
           exit_on_failed |-> TRUE, min_duration |-> 0]

NoData == [some |-> FALSE, pg_conn |-> 0, pg_version |-> <<>>,
           pg_num_version |-> 0, min_duration |-> 0, dsn_parameters |-> None]

NotReconnected == [status |-> "not_called", outcome |-> None, self |-> NoData,
                   data |-> NoData, seen |-> NoParts]

ConnIdle ==
    /\ args = NoArgs /\ server_version = NoParts /\ pc = "idle" /\ nb_try = 0
    /\ password = None /\ data = NoData /\ prompts = 0 /\ history = <<>>
    /\ attempts = <<>> /\ pg_conn = 0 /\ ret = "not_run" /\ fetched = NoParts
    /\ raised = None /\ next_handle = 0 /\ upgrades = 0 /\ reconnects = 0
    /\ rc = NotReconnected

\* One call of pg_get_num_version on the input.
Resolve ==
    /\ ~res.called
    /\ res' = pg_get_num_version(text)
    /\ UNCHANGED <<parts, text, parts_b, text_b, res_b, qryVars, dbVars, connVars>>

\* A call of pg_get_num_version on the second input, after the first.
ResolveOther ==
    /\ res.called /\ ~res_b.called
    /\ res_b' = pg_get_num_version(text_b)
    /\ UNCHANGED <<parts, text, res, parts_b, text_b, qryVars, dbVars, connVars>>

InitVersion ==
    /\ parts \in VersionParts /\ text = Render(parts) /\ res = NotCalled
    /\ parts_b = NoParts /\ text_b = <<>> /\ res_b = NotCalled
    /\ QryIdle /\ DbIdle /\ ConnIdle

SpecVersion == InitVersion /\ [][Resolve]_vars

InitOrder ==
    /\ parts \in OrderParts /\ text = Render(parts) /\ res = NotCalled
    /\ parts_b \in RefParts /\ text_b = Render(parts_b) /\ res_b = NotCalled
    /\ QryIdle /\ DbIdle /\ ConnIdle

NextOrder == Resolve \/ ResolveOther

SpecOrder == InitOrder /\ [][NextOrder]_vars

-----------------------------------------------------------------------------
(* What the components of an input denote. *)

Supported(c) ==
    /\ c.product \in Products
    /\ c.minor # Absent \/ c.suffix \in PreSuffixes

StableForm(c) == c.product \in Products /\ c.minor # Absent

PreReleaseForm(c) ==
    c.product \in Products /\ c.patch = Absent /\ c.suffix \in PreSuffixes

Major(c) == int(c.major)
Minor(c) == IF c.minor = Absent THEN 0 ELSE int(c.minor)
Patch(c) == IF c.patch = Absent THEN 0 ELSE int(c.patch)

\* A numeral as every release writes it: one or two digits, no leading zero.
TwoDigit(n) == Len(n) <= 2 /\ (Len(n) = 1 \/ n[1] # "0")

PlainNumerals(c) ==
    /\ c.minor = Absent \/ TwoDigit(c.minor)
    /\ c.patch = Absent \/ TwoDigit(c.patch)

Expected(c) == Major(c) * 10000 + Minor(c) * 100 + Patch(c)

\* C5 as stated: for every string of the stable form the code is
\* major*10000 + minor*100 + patch (patch 0 when absent), and for every
\* string of the pre-release form it is major*10000 + minor*100 (minor 0
\* when absent).
C5_AsStated ==
    res.called /\ (StableForm(parts) \/ PreReleaseForm(parts))
        => res.ok /\ res.pg_num_version = Expected(parts)

\* C5, amended: the same, for the strings whose minor and patch are written
\* with one or two digits and no leading zero.
C5_Code ==
    res.called /\ (StableForm(parts) \/ PreReleaseForm(parts)) /\ PlainNumerals(parts)
        => res.ok /\ res.pg_num_version = Expected(parts)

\* C5's case: "PostgreSQL 9.1.19" resolved to 90119.
C5_Witness ==
    /\ res.called /\ res.ok
    /\ text = <<"PostgreSQL", " ", "9", ".", "1", ".", "1", "9">>
    /\ res.pg_num_version = 90119

Precedes(a, b) ==
    \/ Major(a) < Major(b)
    \/ Major(a) = Major(b) /\ Minor(a) < Minor(b)
    \/ Major(a) = Major(b) /\ Minor(a) = Minor(b) /\ Patch(a) < Patch(b)

\* C6 as stated: for two supported strings, if the release of the one precedes
\* the release of the other (by major, minor, patch), its code is the smaller.
C6_AsStated ==
    res.called /\ res_b.called /\ Supported(parts) /\ Supported(parts_b)
        => /\ Precedes(parts, parts_b) => res.pg_num_version < res_b.pg_num_version
           /\ Precedes(parts_b, parts) => res_b.pg_num_version < res.pg_num_version

\* C6, amended: the same, for the strings whose minor and patch are written
\* with one or two digits and no leading zero.
C6_Monotonic ==
    (res.called /\ res_b.called /\ Supported(parts) /\ Supported(parts_b)
     /\ PlainNumerals(parts) /\ PlainNumerals(parts_b))
        => /\ res.ok /\ res_b.ok
           /\ Precedes(parts, parts_b) => res.pg_num_version < res_b.pg_num_version
           /\ Precedes(parts_b, parts) => res_b.pg_num_version < res.pg_num_version

\* C6's case: "PostgreSQL 9.19.9" (91909) before "EnterpriseDB 10beta2" (100000).
C6_Witness ==
    /\ res.called /\ res_b.called
    /\ text = <<"PostgreSQL", " ", "9", ".", "1", "9", ".", "9">>
    /\ text_b = <<"EnterpriseDB", " ", "1", "0", "beta", "2">>
    /\ Precedes(parts, parts_b)
    /\ res.pg_num_version = 91909 /\ res_b.pg_num_version = 100000

-----------------------------------------------------------------------------
(* Query selection: each operation picks its query by the session's version *)
(* code, formats the duration column into it and runs it.                   *)

\* The query of a branch nothing assigned (Python: UnboundLocalError).
Unbound == "unbound"

get_duration_column(mode) ==
    LET m == IF mode \notin {1, 2, 3} THEN 1 ELSE mode
    IN  <<"query_start", "xact_start", "backend_start">>[m]

\* ActivitiesQuery with > for >= at the first bound.
ActivitiesQueryStrict(v) ==
    IF v > 110000 THEN "get_pg_activity_post_110000"
    ELSE IF v >= 100000 THEN "get_pg_activity_post_100000"
    ELSE IF v >= 90600 THEN "get_pg_activity_post_90600"
    ELSE IF v >= 90200 THEN "get_pg_activity_post_90200"
    ELSE IF v < 90200 THEN "get_pg_activity"
    ELSE Unbound

ActivitiesQuery(v) ==
    IF v >= 110000 THEN "get_pg_activity_post_110000"
    ELSE IF v >= 100000 THEN "get_pg_activity_post_100000"
    ELSE IF v >= 90600 THEN "get_pg_activity_post_90600"
    ELSE IF v >= 90200 THEN "get_pg_activity_post_90200"
    ELSE IF v < 90200 THEN "get_pg_activity"
    ELSE Unbound

WaitingQuery(v) ==
    IF v >= 90200 THEN "get_waiting_post_90200"
    ELSE IF v < 90200 THEN "get_waiting"
    ELSE Unbound

BlockingQuery(v) ==
    IF v >= 90200 THEN "get_blocking_post_90200"
    ELSE IF v < 90200 THEN "get_blocking"
    ELSE Unbound

ActiveConnectionsQuery(v) ==
    IF v < 90200 THEN "get_active_connections.sql"
    ELSE "get_active_connections_post_90200"

TerminateQuery(v) ==
    IF v >= 80400 THEN "do_pg_terminate_backend"
    ELSE "do_pg_cancel_backend"

BracketBounds == {110000, 100000, 90600, 90200, 80400}

SessionVersions ==
    {b + d : b \in BracketBounds, d \in (0 - MaxOffset)..MaxOffset}
        \cup {90100, 90119, 110900, 130000}

DurationModes == 0..MaxDurationMode

Select(o, q, mode, col) ==
    /\ op' = o /\ query' = q /\ duration_mode' = mode /\ duration_column' = col
    /\ UNCHANGED <<session_version, verVars, dbVars, connVars>>

pg_get_activities ==
    \E mode \in DurationModes :
        Select("activities", ActivitiesQuery(session_version), mode,
               get_duration_column(mode))

pg_get_waiting ==
    \E mode \in DurationModes :
        Select("waiting", WaitingQuery(session_version), mode,
               get_duration_column(mode))

pg_get_blocking ==
    \E mode \in DurationModes :
        Select("blocking", BlockingQuery(session_version), mode,
               get_duration_column(mode))

pg_get_active_connections ==
    Select("active_connections", ActiveConnectionsQuery(session_version), 0, None)

pg_terminate_backend ==
    Select("terminate_backend", TerminateQuery(session_version), 0, None)

InitQuery ==
    /\ session_version \in SessionVersions
    /\ op = None /\ duration_mode = 0 /\ query = None /\ duration_column = None
    /\ VerIdle /\ DbIdle /\ ConnIdle

NextQuery ==
    \/ pg_get_activities
    \/ pg_get_waiting
    \/ pg_get_blocking
    \/ pg_get_active_connections
    \/ pg_terminate_backend

SpecQuery == InitQuery /\ [][NextQuery]_vars

\* The catalog as the specification gives it: per operation, the variants
\* with their lower bounds; the legacy variant has bound 0.
Catalog(o) ==
    CASE o = "activities" ->
            {<<110000, "get_pg_activity_post_110000">>,
             <<100000, "get_pg_activity_post_100000">>,
             <<90600, "get_pg_activity_post_90600">>,
             <<90200, "get_pg_activity_post_90200">>,
             <<0, "get_pg_activity">>}
      [] o = "waiting" ->
            {<<90200, "get_waiting_post_90200">>, <<0, "get_waiting">>}
      [] o = "blocking" ->
            {<<90200, "get_blocking_post_90200">>, <<0, "get_blocking">>}
      [] o = "active_connections" ->
            {<<90200, "get_active_connections_post_90200">>,
             <<0, "get_active_connections.sql">>}
      [] o = "terminate_backend" ->
            {<<80400, "do_pg_terminate_backend">>, <<0, "do_pg_cancel_backend">>}

\* The variants of o whose bound is the greatest bound <= v.
Bracket(o, v) ==
    {e \in Catalog(o) :
        e[1] <= v /\ \A f \in Catalog(o) : f[1] <= v => f[1] <= e[1]}

\* C7: every version-bracketed operation selects exactly one variant, the one
\* whose lower bound is the greatest bound <= the session's version code (the
\* legacy variant below every bound); 110000, 109999 and 90100 select the
\* >=110000, the >=100000 and the legacy activities variant, and
\* terminate_backend below 80400 runs the cancel query.
C7_Bracket ==
    op # None =>
        /\ Cardinality(Bracket(op, session_version)) = 1
        /\ \E e \in Bracket(op, session_version) : query = e[2]
        /\ op = "activities" /\ session_version = 110000
                => query = "get_pg_activity_post_110000"
        /\ op = "activities" /\ session_version = 109999
                => query = "get_pg_activity_post_100000"
        /\ op = "activities" /\ session_version = 90100 => query = "get_pg_activity"
        /\ op = "terminate_backend" /\ session_version < 80400
                => query = "do_pg_cancel_backend"

\* C7's case: at 109999 pg_get_activities runs the >=100000 variant.
C7_Witness ==
    /\ op = "activities" /\ session_version = 109999
    /\ query = "get_pg_activity_post_100000"

-----------------------------------------------------------------------------
(* Data.pg_get_db_info: the counters fetched now, and the rates against the *)
(* previous snapshot the caller passes.                                     *)

Abs(x) == IF x < 0 THEN 0 - x ELSE x

\* IntOfQuotient as a floor division (a // b).
FloorOfQuotient(a, b) == IF b < 0 THEN (0 - a) \div (0 - b) ELSE a \div b

\* int(a / b) for b # 0: the quotient with its fraction dropped.
IntOfQuotient(a, b) ==
    IF (a < 0) = (b < 0) THEN Abs(a) \div Abs(b) ELSE 0 - (Abs(a) \div Abs(b))

RECURSIVE GCD(_, _)
GCD(a, b) == IF b = 0 THEN a ELSE GCD(b, a % b)

\* float(a) / b for b # 0, as a fraction in lowest terms with a positive
\* denominator; 0.0 is <<0, 1>>.
FloatQuotient(a, b) ==
    LET g == GCD(Abs(a), Abs(b))
        n == IF b < 0 THEN 0 - a ELSE a
    IN  <<n \div g, Abs(b) \div g>>

ZeroFloat == <<0, 1>>

\* Rates without the except clause: the division by zero reaches the caller.
RatesUnguarded(prev, r) ==
    IF ~prev.some THEN [raised |-> FALSE, tps |-> 0, size_ev |-> ZeroFloat]
    ELSE IF r.timestamp - prev.timestamp = 0
         THEN [raised |-> TRUE, tps |-> 0, size_ev |-> ZeroFloat]
    ELSE [raised |-> FALSE,
          tps |-> IntOfQuotient(r.no_xact - prev.no_xact,
                                r.timestamp - prev.timestamp),
          size_ev |-> FloatQuotient(r.total_size - prev.total_size,
                                    r.timestamp - prev.timestamp)]

\* The try block of pg_get_db_info: tps first, then size_ev; ZeroDivisionError
\* of the first division leaves both as they were set before it.
Rates(prev, r) ==
    IF ~prev.some THEN [raised |-> FALSE, tps |-> 0, size_ev |-> ZeroFloat]
    ELSE IF r.timestamp - prev.timestamp = 0
         THEN [raised |-> FALSE, tps |-> 0, size_ev |-> ZeroFloat]
    ELSE [raised |-> FALSE,
          tps |-> IntOfQuotient(r.no_xact - prev.no_xact,
                                r.timestamp - prev.timestamp),
          size_ev |-> FloatQuotient(r.total_size - prev.total_size,
                                    r.timestamp - prev.timestamp)]

Snapshots ==
    {NoSnapshot} \cup
    [some : {TRUE}, timestamp : 0..MaxTime, no_xact : 0..MaxXact,
     total_size : 0..MaxSize]

Rows ==
    [timestamp : 0..MaxTime, no_xact : 0..MaxXact, total_size : 0..MaxSize,
     max_length : 0..MaxLength]

pg_get_db_info ==
    \E r \in Rows :
        LET rates == Rates(prev_db_infos, r)
        IN  /\ row' = r
            /\ db_info' = [some |-> TRUE, raised |-> rates.raised,
                           timestamp |-> r.timestamp, no_xact |-> r.no_xact,
                           total_size |-> r.total_size,
                           max_length |-> r.max_length,
                           tps |-> rates.tps, size_ev |-> rates.size_ev]
            /\ UNCHANGED <<prev_db_infos, verVars, qryVars, connVars>>

InitDbInfo ==
    /\ prev_db_infos \in Snapshots /\ row = NoRow /\ db_info = NoDbInfo
    /\ VerIdle /\ QryIdle /\ ConnIdle

SpecDbInfo == InitDbInfo /\ [][pg_get_db_info]_vars

Elapsed == row.timestamp - prev_db_infos.timestamp
XactDelta == row.no_xact - prev_db_infos.no_xact

\* C8: with no previous snapshot, and with a previous snapshot of the same
\* timestamp, pg_get_db_info returns tps = 0 and size growth = 0.0 whatever
\* the counters are, and no division error reaches the caller.
C8_ZeroRates ==
    db_info.some /\ (~prev_db_infos.some \/ Elapsed = 0)
        => ~db_info.raised /\ db_info.tps = 0 /\ db_info.size_ev = ZeroFloat

\* C8's case: same timestamp, different counters.
C8_Witness ==
    /\ db_info.some /\ prev_db_infos.some /\ Elapsed = 0
    /\ XactDelta # 0 /\ row.total_size # prev_db_infos.total_size
    /\ db_info.tps = 0

\* floor(a / b) for b # 0.
Floor(a, b) == IF b < 0 THEN (0 - a) \div (0 - b) ELSE a \div b

\* C10 as stated: with non-zero elapsed time, out-of-order pairs included,
\* tps = floor(transaction delta / elapsed time).
C10_AsStated ==
    db_info.some /\ prev_db_infos.some /\ Elapsed # 0
        => ~db_info.raised /\ db_info.tps = Floor(XactDelta, Elapsed)

\* C10, amended: with non-zero elapsed time, out-of-order pairs included, tps
\* is the quotient transaction delta / elapsed time rounded toward zero: the
\* integer of the quotient's sign with |tps| <= |quotient| < |tps| + 1.  It
\* is the floor when the quotient is not negative.
C10_Truncated ==
    db_info.some /\ prev_db_infos.some /\ Elapsed # 0
        => /\ ~db_info.raised
           /\ Abs(db_info.tps) * Abs(Elapsed) <= Abs(XactDelta)
           /\ Abs(XactDelta) < (Abs(db_info.tps) + 1) * Abs(Elapsed)
           /\ db_info.tps > 0 => (XactDelta < 0) = (Elapsed < 0)
           /\ db_info.tps < 0 => (XactDelta < 0) # (Elapsed < 0)
           /\ (XactDelta < 0) = (Elapsed < 0) \/ XactDelta = 0
                => db_info.tps = Floor(XactDelta, Elapsed)

\* C10's case: an out-of-order pair whose quotient -3/2 gives tps = -1.
C10_Witness ==
    /\ db_info.some /\ prev_db_infos.some
    /\ XactDelta = 0 - 3 /\ Elapsed = 2 /\ db_info.tps = 0 - 1

-----------------------------------------------------------------------------
(* The connection life cycle: the pg_connect wrapper, its calls of          *)
(* Data.pg_connect, and Data.try_reconnect on the session it returned.      *)

\* The exception classes the code names, with their base classes.
Parent(e) ==
    CASE e = "InvalidPassword" -> "OperationalError"
      [] e = "OperationalError" -> "DatabaseError"
      [] e = "ProgrammingError" -> "DatabaseError"
      [] e = "DatabaseError" -> "Error"
      [] e = "InterfaceError" -> "Error"
      [] e = "Error" -> "Exception"
      [] e = "AssertionError" -> "Exception"
      [] OTHER -> None

RECURSIVE IsInstance(_, _)
IsInstance(e, cls) ==
    e = cls \/ (Parent(e) # None /\ IsInstance(Parent(e), cls))

\* What psycopg3.connect raises: errors of the library, of the two classes
\* try_reconnect names (InvalidPassword is an OperationalError) and of another.
ConnectErrors ==
    {"InterfaceError", "OperationalError", "InvalidPassword", "ProgrammingError"}

ConnectOutcomes == {"ok"} \cup ConnectErrors

\* for nb_try in range(2)
Tries == 2

\* if host is None or host == "localhost"
SocketFirst(host) == host = None \/ host = "localhost"

\* SocketErrorPropagates without the raise: every socket error is swallowed.
SocketErrorSwallowed(err, host) == FALSE

\* except Error as psy_err: if host is None: raise psy_err
SocketErrorPropagates(err, host) == IsInstance(err, "Error") /\ host = None

\* if service is not None: ... elif dsn: ... else: ...
ConnectForm(service, dsn) ==
    IF service # None THEN "service" ELSE IF dsn # "" THEN "dsn" ELSE "params"

\* One psycopg3.connect call of Data.pg_connect and how it ended; host is
\* passed by the TCP/IP branch's discrete parameters only.
ConnectCall(step, outcome) ==
    LET form == ConnectForm(args.service, args.dsn)
    IN  [step |-> step, form |-> form,
         host_passed |-> step = "network" /\ form = "params",
         password |-> IF form = "params" THEN password ELSE None,
         outcome |-> outcome]

\* NotSuperuser testing for a value the server never answers.
NotSuperuserWrongValue(r) == r = "false"

\* if ret[0] != "on": raise Exception(...)
NotSuperuser(r) == r # "on"

\* RetryAllowed without the test of nb_try.
RetryAlways(n, err) == IsInstance(err, "InvalidPassword")

\* if nb_try < 1 and isinstance(err, InvalidPassword)
RetryAllowed(n, err) == n < 1 /\ IsInstance(err, "InvalidPassword")

\* The wrapper's locals after Data.pg_connect raised err: an error that is no
\* OperationalError passes through; InvalidPassword on the first try prompts
\* and goes round the loop (a loop that ends without a session reaches
\* "return data" with data unbound); anything else is fatal.
Handled(err) ==
    IF ~IsInstance(err, "OperationalError")
    THEN [pc |-> "raised", raised |-> err, password |-> password,
          prompts |-> prompts, nb_try |-> nb_try]
    ELSE IF RetryAllowed(nb_try, err)
    THEN [pc |-> IF nb_try + 1 < Tries THEN "call" ELSE "raised",
          raised |-> IF nb_try + 1 < Tries THEN None ELSE "UnboundLocalError",
          password |-> "prompted", prompts |-> prompts + 1,
          nb_try |-> nb_try + 1]
    ELSE [pc |-> "raised",
          raised |-> IF args.exit_on_failed THEN "SystemExit" ELSE "Exception",
          password |-> password, prompts |-> prompts, nb_try |-> nb_try]

\* Data.pg_connect raises err into the wrapper.
Raise(err) ==
    LET h == Handled(err)
    IN  /\ pc' = h.pc /\ raised' = h.raised /\ password' = h.password
        /\ prompts' = h.prompts /\ nb_try' = h.nb_try
        /\ history' = Append(history, err)

Quiet == UNCHANGED <<raised, password, prompts, nb_try, history>>

\* The wrapper calls Data.pg_connect: pg_conn = None, then the host test.
Call ==
    /\ pc = "call"
    /\ pg_conn' = 0 /\ attempts' = <<>> /\ ret' = "not_run" /\ fetched' = NoParts
    /\ pc' = IF SocketFirst(args.host) THEN "socket" ELSE "network"
    /\ Quiet
    /\ UNCHANGED <<args, server_version, data, next_handle, upgrades,
                   reconnects, rc, verVars, qryVars, dbVars>>

AfterConnect == IF args.rds_mode THEN "version" ELSE "superuser"

\* The connection over the UNIX socket.
SocketStep ==
    /\ pc = "socket"
    /\ \E o \in ConnectOutcomes :
          /\ attempts' = Append(attempts, ConnectCall("socket", o))
          /\ IF o = "ok"
             THEN /\ pg_conn' = next_handle + 1 /\ next_handle' = next_handle + 1
                  /\ pc' = AfterConnect /\ Quiet
             ELSE /\ UNCHANGED <<pg_conn, next_handle>>
                  /\ IF SocketErrorPropagates(o, args.host)
                     THEN Raise(o)
                     ELSE pc' = "network" /\ Quiet
    /\ UNCHANGED <<args, server_version, data, ret, fetched, upgrades,
                   reconnects, rc, verVars, qryVars, dbVars>>

\* if pg_conn is None: the connection over TCP/IP.
NetworkStep ==
    /\ pc = "network"
    /\ \E o \in ConnectOutcomes :
          /\ attempts' = Append(attempts, ConnectCall("network", o))
          /\ IF o = "ok"
             THEN /\ pg_conn' = next_handle + 1 /\ next_handle' = next_handle + 1
                  /\ pc' = AfterConnect /\ Quiet
             ELSE /\ UNCHANGED <<pg_conn, next_handle>>
                  /\ Raise(o)
    /\ UNCHANGED <<args, server_version, data, ret, fetched, upgrades,
                   reconnects, rc, verVars, qryVars, dbVars>>

\* if not rds_mode: the is_superuser query, which answers "on", "off" or no
\* row, or fails.
SuperuserStep ==
    /\ pc = "superuser"
    /\ \E r \in {"on", "off", "no_row", "query_failed"} :
          /\ ret' = r
          /\ IF r = "query_failed" THEN Raise("OperationalError")
             ELSE IF r = "no_row" THEN Raise("AssertionError")
             ELSE IF NotSuperuser(r) THEN Raise("Exception")
             ELSE pc' = "version" /\ Quiet
    /\ UNCHANGED <<args, server_version, data, attempts, pg_conn, fetched,
                   next_handle, upgrades, reconnects, rc, verVars, qryVars, dbVars>>

\* cls(pg_conn, pg_version, pg_num_version, min_duration=...,
\*     dsn_parameters=pg_conn.info.get_parameters())
Session(conn, v, min_duration, parameters) ==
    [some |-> TRUE, pg_conn |-> conn, pg_version |-> v.pg_version,
     pg_num_version |-> v.pg_num_version, min_duration |-> min_duration,
     dsn_parameters |-> parameters]

\* pg_conn.info.get_parameters() of the connection the last attempt made.
Parameters == [step |-> attempts[Len(attempts)].step,
               form |-> attempts[Len(attempts)].form]

\* pg_get_num_version(pg_get_version(pg_conn)) and the session; the wrapper
\* leaves its loop and returns it.  The query of pg_get_version may fail.
VersionStep ==
    /\ pc = "version"
    /\ \/ /\ fetched' = server_version
          /\ LET v == pg_get_num_version(Render(server_version))
             IN  IF ~v.ok
                 THEN Raise("Exception") /\ UNCHANGED data
                 ELSE /\ data' = Session(pg_conn, v, args.min_duration, Parameters)
                      /\ history' = Append(history, "ok")
                      /\ pc' = "returned"
                      /\ UNCHANGED <<raised, password, prompts, nb_try>>
       \/ \* the get_version query fails
          /\ Raise("OperationalError") /\ UNCHANGED <<data, fetched>>
    /\ UNCHANGED <<args, server_version, attempts, pg_conn, ret, next_handle,
                   upgrades, reconnects, rc, verVars, qryVars, dbVars>>

\* attr.evolve(self, pg_conn=pg_conn, dsn_parameters=pg_conn.info.get_parameters())
Evolve(self, conn) ==
    [self EXCEPT !.pg_conn = conn, !.dsn_parameters = self.dsn_parameters]

\* except (InterfaceError, OperationalError): return None
ReconnectCaught(err) ==
    IsInstance(err, "InterfaceError") \/ IsInstance(err, "OperationalError")

\* try_reconnect on the session the wrapper returned.
TryReconnect ==
    /\ pc = "returned" /\ reconnects < MaxReconnects
    /\ reconnects' = reconnects + 1
    /\ \E o \in ConnectOutcomes :
          IF o = "ok"
          THEN /\ next_handle' = next_handle + 1
               /\ rc' = [status |-> "session", outcome |-> o, self |-> data,
                         data |-> Evolve(data, next_handle + 1),
                         seen |-> server_version]
          ELSE /\ UNCHANGED next_handle
               /\ rc' = [status |-> IF ReconnectCaught(o) THEN "None" ELSE "raised",
                         outcome |-> o, self |-> data, data |-> NoData,
                         seen |-> server_version]
    /\ UNCHANGED <<args, server_version, pc, nb_try, password, data, prompts,
                   history, attempts, pg_conn, ret, fetched, raised, upgrades,
                   verVars, qryVars, dbVars>>

P(product, major, minor, patch, suffix) ==
    [product |-> product, major |-> major, minor |-> minor, patch |-> patch,
     suffix |-> suffix]

\* "PostgreSQL 9.1.19", "PostgreSQL 11.9", "EnterpriseDB 13beta2",
\* "MariaDB 10.5" and "PostgreSQL 14".
ServerParts ==
    {P("PostgreSQL", <<"9">>, <<"1">>, <<"1", "9">>, <<>>),
     P("PostgreSQL", <<"1", "1">>, <<"9">>, Absent, <<>>),
     P("EnterpriseDB", <<"1", "3">>, Absent, Absent, <<"beta", "2">>),
     P("MariaDB", <<"1", "0">>, <<"5">>, Absent, <<>>),
     P("PostgreSQL", <<"1", "4">>, Absent, Absent, <<>>)}

\* The server is replaced by one of another version.
ServerUpgrade ==
    /\ upgrades < MaxUpgrades /\ pc # "raised"
    /\ upgrades' = upgrades + 1
    /\ \E v \in ServerParts \ {server_version} : server_version' = v
    /\ UNCHANGED <<args, pc, nb_try, password, data, prompts, history,
                   attempts, pg_conn, ret, fetched, raised, next_handle,
                   reconnects, rc, verVars, qryVars, dbVars>>

Arguments ==
    [host : {None, "localhost", "db.example"}, rds_mode : BOOLEAN,
     service : {None, "svc"}, dsn : {"", "dbname=postgres"},
     exit_on_failed : BOOLEAN, min_duration : 0..MaxMinDuration]

Init ==
    /\ args \in Arguments /\ server_version \in ServerParts
    /\ pc = "call" /\ nb_try = 0 /\ password \in {None, "given"}
    /\ data = NoData /\ prompts = 0 /\ history = <<>> /\ attempts = <<>>
    /\ pg_conn = 0 /\ ret = "not_run" /\ fetched = NoParts /\ raised = None
    /\ next_handle = 0 /\ upgrades = 0 /\ reconnects = 0 /\ rc = NotReconnected
    /\ VerIdle /\ QryIdle /\ DbIdle

Next ==
    \/ Call
    \/ SocketStep
    \/ NetworkStep
    \/ SuperuserStep
    \/ VersionStep
    \/ TryReconnect
    \/ ServerUpgrade

Spec == Init /\ [][Next]_vars

-----------------------------------------------------------------------------
(* The claims on the connection life cycle. *)

Last(q) == q[Len(q)]

\* C1 as stated: a session try_reconnect returns carries the version of the
\* server behind the new connection, also when it changed since the connect.
C1_AsStated ==
    rc.status = "session" /\ Supported(rc.seen)
        => /\ rc.data.pg_num_version
                = pg_get_num_version(Render(rc.seen)).pg_num_version
           /\ rc.data.pg_version = pg_get_num_version(Render(rc.seen)).pg_version

\* C2 as stated: whatever error the connect attempt of try_reconnect fails
\* with, try_reconnect returns None and the session it was called on keeps
\* its fields.
C2_AsStated ==
    rc.status # "not_called" /\ rc.outcome # "ok"
        => rc.status = "None" /\ data = rc.self

\* C3: in a run of the pg_connect wrapper the password is prompted for at
\* most once, Data.pg_connect is called at most twice, a second call follows
\* only a first call that failed with InvalidPassword, every other failure
\* (and InvalidPassword on the second call) ends the run at once with an
\* exception, and the wrapper returns only with the session of a call that
\* succeeded.
C3_Retry ==
    /\ prompts <= 1
    /\ Len(history) <= 2
    /\ Len(history) = 2 => history[1] = "InvalidPassword"
    /\ prompts = 1 => history[1] = "InvalidPassword"
    /\ \A i \in 1..Len(history) :
          history[i] # "ok" /\ ~(i = 1 /\ history[i] = "InvalidPassword")
              => i = Len(history) /\ pc = "raised" /\ raised # None
    /\ history # <<>> /\ history[1] = "InvalidPassword" /\ Len(history) = 1
          => prompts = 1 /\ pc \in {"call", "socket", "network", "superuser", "version"}
    /\ pc = "returned" => data.some /\ Last(history) = "ok" /\ raised = None
    /\ pc = "raised" => ~data.some /\ raised # None /\ Last(history) # "ok"
    /\ data.some => pc = "returned"

\* C3's case: a first call refused for its password, one prompt, a second
\* call that succeeded.
C3_Witness ==
    /\ history = <<"InvalidPassword", "ok">> /\ prompts = 1
    /\ pc = "returned" /\ data.some /\ password = "prompted"

\* C4: Data.pg_connect produces a session only when rds_mode is set or the
\* privilege query answered "on", and the version string was one the
\* resolver parses; when the privilege check fails or the string matches
\* neither pattern the call ends with an error and without a session.
C4_NoPartialSession ==
    /\ data.some => /\ args.rds_mode \/ ret = "on"
                    /\ Supported(fetched)
                    /\ Last(history) = "ok"
    /\ ret \in {"off", "no_row", "query_failed"}
          => ~data.some /\ pc = "raised" /\ Last(history) # "ok"
    /\ fetched # NoParts /\ ~Supported(fetched)
          => ~data.some /\ pc = "raised" /\ Last(history) = "Exception"

\* C4's case: a session after the privilege query answered "on".
C4_Witness ==
    /\ data.some /\ ~args.rds_mode /\ ret = "on" /\ Supported(fetched)

\* The connect calls of the current (or last) call of Data.pg_connect are
\* over: the call went on to its queries, or ended.
ConnectOver == attempts # <<>> /\ pc \notin {"socket", "network"}

SocketYielded == attempts[1].step = "socket" /\ attempts[1].outcome = "ok"

SocketFailed == attempts[1].step = "socket" /\ attempts[1].outcome # "ok"

NetworkAttempts == {i \in 1..Len(attempts) : attempts[i].step = "network"}

\* service name over raw DSN over discrete parameters
Precedence ==
    IF args.service # None THEN "service"
    ELSE IF args.dsn # "" THEN "dsn" ELSE "params"

\* What C9 says of the attempts, but for when the network attempt is made.
C9_Common ==
    attempts # <<>> =>
        /\ attempts[1].step = "socket" <=> args.host \in {None, "localhost"}
        /\ \A i \in 2..Len(attempts) : attempts[i].step = "network"
        /\ \A i \in 1..Len(attempts) :
              /\ attempts[i].step = "socket" => ~attempts[i].host_passed
              /\ attempts[i].form = Precedence
        /\ SocketFailed /\ args.host = None
              => /\ Len(attempts) = 1 /\ pc \in {"call", "raised"}
                 /\ Last(history) = attempts[1].outcome
        /\ SocketFailed /\ args.host = "localhost"
              => /\ Len(attempts) = 1 => pc = "network"
                 /\ ConnectOver => Len(attempts) = 2
        /\ Len(attempts) <= 2
        /\ Cardinality(NetworkAttempts) <= 1

\* C9 as stated: ... and a network attempt is made if and only if the socket
\* step did not yield a connection.
C9_AsStated ==
    /\ C9_Common
    /\ ConnectOver => (NetworkAttempts # {} <=> ~SocketYielded)

\* C9, amended: a socket attempt is made first exactly when host is unset or
\* "localhost"; its error propagates, with no network attempt, when host is
\* unset, and is swallowed, with exactly one network attempt after it, when
\* host is "localhost"; a network attempt is made if and only if the socket
\* step neither yielded a connection nor propagated its error; a call makes
\* at most two attempts, each by service name over DSN over parameters.
C9_SocketThenNetwork ==
    /\ C9_Common
    /\ ConnectOver =>
          (NetworkAttempts # {}
              <=> ~SocketYielded /\ ~(SocketFailed /\ args.host = None))

\* C9's case: host "localhost", the socket attempt failed, the network
\* attempt connected.
C9_Witness ==
    /\ args.host = "localhost" /\ Len(attempts) = 2
    /\ attempts[1].step = "socket" /\ attempts[1].outcome = "OperationalError"
    /\ attempts[2].step = "network" /\ attempts[2].outcome = "ok"
    /\ pg_conn # 0

=============================================================================
